---------------------------- MODULE Spec2Model ----------------------------
(***************************************************************************)
(* Model of the ATECCX08A driver (SparkFun_ATECCX08a_Arduino_Library.cpp). *)
(*                                                                         *)
(* Bytes are integers 0..255.  A C array is a sequence; the C index i is   *)
(* the sequence index i + 1 (see At).                                      *)
(***************************************************************************)
EXTENDS Integers, Sequences, FiniteSets, TLC

(***************************************************************************)
(* Program constants.                                                      *)
(***************************************************************************)
\* declared in the library's header, which is not part of src/
WORD_ADDRESS_VALUE_COMMAND == 3
WORD_ADDRESS_VALUE_IDLE == 2
COMMAND_OPCODE_INFO == 48
COMMAND_OPCODE_RANDOM == 27
\* sizeof(inputBuffer) and sizeof(random32Bytes), header declarations
InputBufferSize == 35
Random32Size == 32
\* default device address handed to begin()
I2cAddr == 96

\* uint16_t polynom = 0x8005
polynom == 32773
\* receiveResponseData(4) in wakeUp, (7) in getInfo, (35) in updateRandom32Bytes
WakeResponseLen == 4
InfoResponseLen == 7
RandomResponseLen == 35
\* the chunk cap of receiveResponseData
MaxChunk == 32
\* the status byte wakeUp looks for, the version byte getInfo looks for
WakeStatus == 17
InfoVersion == 80
\* uint8_t count = 0x07 of both command packets
CommandCount == 7

Byte == 0..255

At(a, i) == a[i + 1]

Min(a, b) == IF a < b THEN a ELSE b

(***************************************************************************)
(* C integer operators on bounded widths.                                  *)
(***************************************************************************)
\* the positions of the bits set in the w-bit value b
SetBits(b, w) == {i \in 0..(w - 1) : (b \div (2 ^ i)) % 2 = 1}

\* a with bit i inverted
ToggleBit(a, i) == IF (a \div (2 ^ i)) % 2 = 1 THEN a - (2 ^ i) ELSE a + (2 ^ i)

\* a ^ b, where bits is the set of bits set in b: each of them is inverted in a
RECURSIVE BitXor(_, _)
BitXor(a, bits) ==
  IF bits = {} THEN a
  ELSE LET i == CHOOSE x \in bits : TRUE
       IN BitXor(ToggleBit(a, i), bits \ {i})

\* the bits of polynom, {0, 2, 15}
PolynomBits == SetBits(polynom, 16)

(***************************************************************************)
(* atca_calculate_crc: the body of the inner loop, one data bit.           *)
(* shift_register holds a single bit, so data[counter] & shift_register is *)
(* non-zero exactly when that bit of the byte is set.                      *)
(***************************************************************************)
\* the loop body with the mask running from the top bit of the byte down
CrcBitMsbFirst(crc_register, byte, shift_register) ==
  LET data_bit == IF (byte \div (128 \div shift_register)) % 2 # 0 THEN 1 ELSE 0
      crc_bit == crc_register \div 32768
      shifted == (crc_register * 2) % 65536
  IN IF data_bit # crc_bit THEN BitXor(shifted, PolynomBits) ELSE shifted

\* the loop body as written: the mask runs from bit 0 up
CrcBit(crc_register, byte, shift_register) ==
  LET data_bit == IF (byte \div shift_register) % 2 # 0 THEN 1 ELSE 0
      crc_bit == crc_register \div 32768
      shifted == (crc_register * 2) % 65536
  IN IF data_bit # crc_bit THEN BitXor(shifted, PolynomBits) ELSE shifted

\* for (shift_register = 0x01; shift_register > 0x00; shift_register <<= 1):
\* the mask is 1 << j in turn j and wraps to 0 after the eighth turn.
\* turn[r, j] is the register after turn j run on register r, and reg[j] the
\* register after j turns (a function is applied to evaluated arguments)
CrcByte(crc_register, byte) ==
  LET turn[r \in 0..65535, j \in 0..7] == CrcBit(r, byte, 2 ^ j)
      reg[j \in 0..8] ==
        IF j = 0 THEN crc_register ELSE turn[reg[j - 1], j - 1]
  IN reg[8]

\* uint16_t crc_register = 0; for (counter = 0; counter < length; counter++):
\* reg[k] is the register after the first k bytes
CrcRegister(len, data) ==
  LET turn[r \in 0..65535, counter \in 0..255] == CrcByte(r, At(data, counter))
      reg[k \in 0..len] ==
        IF k = 0 THEN 0 ELSE turn[reg[k - 1], k - 1]
  IN reg[len]

\* the register split high byte first
CrcPairSwapped(crc_register) == <<crc_register \div 256, crc_register % 256>>

\* crc[0] = crc_register & 0x00FF; crc[1] = crc_register >> 8
CrcPair(crc_register) ==
  <<crc_register % 256, crc_register \div 256>>

\* the value atca_calculate_crc(length, data) leaves in crc[]
atca_calculate_crc(len, data) == CrcPair(CrcRegister(len, data))


(***************************************************************************)
(* Bounds of the model.                                                    *)
(***************************************************************************)
\* top-level calls made after begin() in one behaviour
MaxCalls == 2
\* read requests counted in one receiveResponseData call (the count saturates)
MaxRequests == 2
\* messages over ByteAlphabet are enumerated in full up to this length
MaxExhaustiveLen == 2

(***************************************************************************)
(* State.                                                                  *)
(***************************************************************************)
VARIABLES
  inputBuffer,      \* uint8_t inputBuffer[]: the response buffer
  countGlobal,      \* uint8_t countGlobal: bytes received in the current response
  crc,              \* uint8_t crc[2]: the checksum pair
  random32Bytes,    \* byte random32Bytes[32]
  i2caddr,          \* _i2caddr, set by begin()
  packet_to_CRC,    \* the array handed to atca_calculate_crc by the caller
  complete_message, \* byte complete_message[9] of getInfo / updateRandom32Bytes
  length,           \* the length parameter of the routine that is running
  requestAmount,    \* byte requestAmount of receiveResponseData
  debug,            \* the debug argument of the running call
  pc,               \* where the running call stands
  op,               \* the top-level operation that is running, or ran last
  calls,            \* top-level calls made so far
  transport,        \* how the bus answers read requests
  wire,             \* the bytes the chip still has to deliver in this exchange
  rx,               \* the bytes delivered so far in this exchange
  want,             \* the length the current receiveResponseData was asked for
  requests,         \* read requests issued by the current receiveResponseData
  bus,              \* bus transactions of the current call, in order
  serial,           \* lines printed on Serial by the current call
  ret,              \* value returned by the top-level operation
  wakeRet,          \* value returned by wakeUp() inside the current call
  countRet,         \* value returned by the last checkCount() of the call
  crcRet,           \* value returned by the last checkCrc() of the call
  flipped,          \* whether a bit of the loaded response was inverted
  twin              \* the call being compared with its twin call, if any

vars == <<inputBuffer, countGlobal, crc, random32Bytes, i2caddr, packet_to_CRC,
          complete_message, length, requestAmount, debug, pc, op, calls,
          transport, wire, rx, want, requests, bus, serial, ret, wakeRet,
          countRet, crcRet, flipped, twin>>

\* the record of a return value: <<>> while the routine has not returned in
\* this call, <<v>> once it has returned v
NoValue == <<>>
Returned(v) == <<v>>
\* no operation
None == "none"

(***************************************************************************)
(* Buffers.                                                                *)
(***************************************************************************)
\* cleanInputBuffer(): every position of inputBuffer set to 0
cleanInputBuffer == [i \in 1..InputBufferSize |-> 0]

\* the bytes of s stored into buffer buf from C index start on
Store(buf, start, s) ==
  [i \in 1..Len(buf) |->
     IF i > start /\ i <= start + Len(s) THEN s[i - start] ELSE buf[i]]

\* the first n bytes of a buffer
Prefix(buf, n) == SubSeq(buf, 1, n)

(***************************************************************************)
(* checkCount(): inputBuffer[0] != countGlobal fails.                      *)
(***************************************************************************)
\* the comparison against the index of the last byte instead of the count
checkCountOffByOne(buf, cnt) == At(buf, 0) = cnt - 1

\* the comparison as written
checkCount(buf, cnt) == At(buf, 0) = cnt

(***************************************************************************)
(* checkCrc(): the checksum pair it computes over countGlobal - 2 bytes,   *)
(* and its return value for that pair.                                     *)
(***************************************************************************)
\* the checksum taken over one byte more, countGlobal - 1
checkCrcPairOffByOne(buf, cnt) == atca_calculate_crc((cnt - 1) % 256, buf)

\* atca_calculate_crc(countGlobal-2, inputBuffer), the length as uint8_t
checkCrcPair(buf, cnt) == atca_calculate_crc((cnt - 2) % 256, buf)

\* the comparison of crc[0] alone
checkCrcRetFirstOnly(buf, cnt, pair) == At(buf, cnt - 2) = At(pair, 0)

\* the comparison as written: either trailing byte differing fails
checkCrcRet(buf, cnt, pair) ==
  ~ ((At(buf, cnt - 1) # At(pair, 1)) \/ (At(buf, cnt - 2) # At(pair, 0)))


(***************************************************************************)
(* The chip.  Its checksum is the vendor's algorithm, computed here on the *)
(* register as the set of its set bits, independently of the driver's      *)
(* integer arithmetic: bit i of the register is set iff i is in the set.   *)
(***************************************************************************)
RefTaps == {0, 2, 15}

RefStep(reg, data_bit) ==
  LET top == IF 15 \in reg THEN 1 ELSE 0
      shifted == {i + 1 : i \in {j \in reg : j < 15}}
  IN IF data_bit # top
     THEN (shifted \ RefTaps) \cup (RefTaps \ shifted)
     ELSE shifted

\* the bits of one byte, least significant first
RECURSIVE RefByte(_, _, _)
RefByte(reg, byte, j) ==
  IF j = 8 THEN reg
  ELSE LET nxt == RefStep(reg, (byte \div (2 ^ j)) % 2)
       IN IF nxt = {} THEN RefByte({}, byte, j + 1) ELSE RefByte(nxt, byte, j + 1)

RECURSIVE RefMsg(_, _, _)
RefMsg(reg, d, k) ==
  IF k > Len(d) THEN reg
  ELSE LET nxt == RefByte(reg, d[k], 0)
       IN IF nxt = {} THEN RefMsg({}, d, k + 1) ELSE RefMsg(nxt, d, k + 1)

RECURSIVE SumPow(_)
SumPow(S) ==
  IF S = {} THEN 0
  ELSE LET i == CHOOSE x \in S : TRUE IN (2 ^ i) + SumPow(S \ {i})

\* the checksum pair of message d: low byte, then high byte
RefCrc(d) ==
  LET reg == RefMsg({}, d, 1)
  IN <<SumPow(reg \cap 0..7), SumPow({i - 8 : i \in reg \cap 8..15})>>

\* a frame as the chip sends it: the message followed by its checksum
ChipFrame(m) == m \o RefCrc(m)

\* a frame whose second checksum byte is damaged
BadCrc(f) == [f EXCEPT ![Len(f)] = (f[Len(f)] + 1) % 256]

Pattern(k, seed, stride) == [i \in 1..k |-> (seed + (i - 1) * stride) % 256]

\* the random data of a chip whose configuration is not locked: FF FF 00 00 ...
UnlockedData == [i \in 1..Random32Size |-> IF ((i - 1) % 4) < 2 THEN 255 ELSE 0]

\* the wake acknowledgement of the data sheet
WakeAckValid == ChipFrame(<<WakeResponseLen, WakeStatus>>)
\* the acknowledgement the comment above wakeUp() quotes
WakeAckDocumented == <<4, 17, 51, 68>>

WakeAcks ==
  { WakeAckValid,
    WakeAckDocumented,
    ChipFrame(<<WakeResponseLen, 1>>),
    ChipFrame(<<WakeResponseLen + 1, WakeStatus>>) }

InfoResponses ==
  { ChipFrame(<<InfoResponseLen, 0, 0, InfoVersion, 0>>),
    ChipFrame(<<InfoResponseLen, 0, 0, 96, 2>>),
    ChipFrame(<<WakeResponseLen, 0, 0, InfoVersion, 0>>),
    BadCrc(ChipFrame(<<InfoResponseLen, 0, 0, InfoVersion, 0>>)) }

RandomResponses ==
  { ChipFrame(<<RandomResponseLen>> \o Pattern(Random32Size, 160, 1)),
    ChipFrame(<<RandomResponseLen>> \o UnlockedData),
    ChipFrame(<<InfoResponseLen>> \o Pattern(Random32Size, 160, 1)),
    BadCrc(ChipFrame(<<RandomResponseLen>> \o Pattern(Random32Size, 160, 1))) }

(***************************************************************************)
(* The bus.                                                                *)
(***************************************************************************)
\* beginTransmission(addr); write(data); endTransmission()
BusWrite(addr, data) == [kind |-> "write", addr |-> addr, data |-> data]
\* the read exchange of one receiveResponseData call
BusRead(addr) == [kind |-> "read", addr |-> addr, data |-> <<>>]

\* the number of bytes a read request for req bytes may deliver
Deliverable(req) ==
  CASE transport = "absent" -> {0}
    [] transport = "full" -> {req}
    [] transport = "single" -> {1}
    [] transport = "short" -> 1..req


(***************************************************************************)
(* Serial output: the lines a routine prints, by their leading text.       *)
(***************************************************************************)
receiveLines(dbg) == IF dbg THEN <<"inputBuffer: ">> ELSE <<>>

checkCountLines(dbg, ok) ==
  (IF dbg THEN <<"countGlobal: 0x", "count heard from IC (inpuBuffer[0]): 0x">>
   ELSE <<>>)
  \o (IF ok THEN <<>> ELSE <<"Message Count Error">>)

checkCrcLines(dbg, ok) ==
  (IF dbg THEN <<"CRC[0] Calc: 0x", "CRC[1] Calc: 0x">> ELSE <<>>)
  \o (IF ok THEN <<>> ELSE <<"Message CRC Error">>)

(***************************************************************************)
(* if(checkCount(dbg) == false) return false;                              *)
(* if(checkCrc(dbg) == false) return false;                                *)
(* as wakeUp, getInfo and updateRandom32Bytes run it on the response:      *)
(* the two return values, the checksum pair left behind, the lines printed.*)
(* checkCrc does not run when checkCount fails (crcRan).                   *)
(***************************************************************************)
\* the sequence without its first line
CheckResponseNoCount(buf, cnt, oldcrc, dbg) ==
  LET pair == checkCrcPair(buf, cnt)
      ok == checkCrcRet(buf, cnt, pair)
  IN [countRet |-> TRUE, crcRan |-> TRUE, crcRet |-> ok, crc |-> pair,
      lines |-> checkCrcLines(dbg, ok)]

\* the sequence with the first line left out when debug is set
CheckResponseCountOnlyQuiet(buf, cnt, oldcrc, dbg) ==
  IF ~ dbg /\ ~ checkCount(buf, cnt)
  THEN [countRet |-> FALSE, crcRan |-> FALSE, crcRet |-> FALSE, crc |-> oldcrc,
        lines |-> checkCountLines(dbg, FALSE)]
  ELSE LET pair == checkCrcPair(buf, cnt)
           ok == checkCrcRet(buf, cnt, pair)
       IN [countRet |-> TRUE, crcRan |-> TRUE, crcRet |-> ok, crc |-> pair,
           lines |-> checkCountLines(dbg, TRUE) \o checkCrcLines(dbg, ok)]

\* the sequence as written
CheckResponse(buf, cnt, oldcrc, dbg) ==
  IF ~ checkCount(buf, cnt)
  THEN [countRet |-> FALSE, crcRan |-> FALSE, crcRet |-> FALSE, crc |-> oldcrc,
        lines |-> checkCountLines(dbg, FALSE)]
  ELSE LET pair == checkCrcPair(buf, cnt)
           ok == checkCrcRet(buf, cnt, pair)
       IN [countRet |-> TRUE, crcRan |-> TRUE, crcRet |-> ok, crc |-> pair,
           lines |-> checkCountLines(dbg, TRUE) \o checkCrcLines(dbg, ok)]

\* both checks passed
Passed(v) == v.countRet /\ v.crcRan /\ v.crcRet

(***************************************************************************)
(* The last line of wakeUp: inputBuffer[1] == 0x11.                        *)
(***************************************************************************)
\* the return value without the look at the status byte
wakeUpCodeIgnored(buf, v) == Passed(v)

wakeUpRet(buf, v) == Passed(v) /\ At(buf, 1) = WakeStatus

(***************************************************************************)
(* The last line of getInfo: inputBuffer[3] == 0x50.                       *)
(***************************************************************************)
\* the return value with the version byte looked for one index early
getInfoWrongIndex(buf, v) == Passed(v) /\ At(buf, 2) = InfoVersion

getInfoRet(buf, v) == Passed(v) /\ At(buf, 3) = InfoVersion

(***************************************************************************)
(* Command packets of getInfo and updateRandom32Bytes.                     *)
(***************************************************************************)
Opcode(o) == IF o = "getInfo" THEN COMMAND_OPCODE_INFO ELSE COMMAND_OPCODE_RANDOM

\* uint8_t packet_to_CRC[] = {count, command, param1, param2a, param2b}
PacketToCrc(o) == <<CommandCount, Opcode(o), 0, 0, 0>>

\* byte complete_message[9] = {WORD_ADDRESS_VALUE_COMMAND, count, command,
\*   param1, param2a, param2b, crc[0], crc[1]}; the ninth element is 0
\* the message with its checksum bytes left 0
CompleteMessageNoCrc(o, pair) ==
  <<WORD_ADDRESS_VALUE_COMMAND>> \o PacketToCrc(o) \o <<0, 0, 0>>

CompleteMessage(o, pair) ==
  <<WORD_ADDRESS_VALUE_COMMAND>> \o PacketToCrc(o) \o <<At(pair, 0), At(pair, 1), 0>>

\* the response length the operation asks receiveResponseData for
ResponseLen(o) == IF o = "getInfo" THEN InfoResponseLen ELSE RandomResponseLen

\* what the chip may answer to the operation's command
Responses(o) == IF o = "getInfo" THEN InfoResponses ELSE RandomResponses

\* the debug argument handed to receiveResponseData / to the two checks
RecvDebug(o, dbg) == IF o = "getInfo" THEN TRUE ELSE dbg
CheckDebug(o, dbg) == IF o = "getInfo" THEN FALSE ELSE dbg

WakeOps == {"begin", "wakeUp"}
RandomOps == {"updateRandom32Bytes", "getRandomByte", "getRandomInt", "getRandomLong"}
CommandOps == {"getInfo"} \cup RandomOps

(***************************************************************************)
(* The accessors' return values from random32Bytes.  int is 16 bits wide   *)
(* on AVR and 32 bits elsewhere, long is 32 bits; a shift into the sign    *)
(* bit wraps to the negative value of that width.  The 32-bit value is     *)
(* put together from its signed upper half and its lower half.             *)
(***************************************************************************)
Signed16(v) == IF v % 65536 >= 32768 THEN (v % 65536) - 65536 ELSE v % 65536

IntWidths == {16, 32}

getRandomByteRet(r) == At(r, 0)

getRandomIntRet(r, w) ==
  IF w = 16 THEN Signed16(At(r, 0) * 256 + At(r, 1))
  ELSE At(r, 0) * 256 + At(r, 1)

\* the four bytes put together least significant first
getRandomLongRetLittleEndian(r) ==
  Signed16(At(r, 3) * 256 + At(r, 2)) * 65536 + (At(r, 1) * 256 + At(r, 0))

getRandomLongRet(r) ==
  Signed16(At(r, 0) * 256 + At(r, 1)) * 65536 + (At(r, 2) * 256 + At(r, 3))

(***************************************************************************)
(* Init: the driver object after construction, before begin().             *)
(***************************************************************************)
Constructed ==
  /\ inputBuffer = cleanInputBuffer
  /\ countGlobal = 0
  /\ crc = <<0, 0>>
  /\ random32Bytes = [i \in 1..Random32Size |-> 0]
  /\ i2caddr = 0
  /\ packet_to_CRC = <<>>
  /\ complete_message = <<>>
  /\ length = 0
  /\ requestAmount = 0
  /\ debug = FALSE
  /\ op = None
  /\ calls = 0
  /\ wire = <<>>
  /\ rx = <<>>
  /\ want = 0
  /\ requests = 0
  /\ bus = <<>>
  /\ serial = <<>>
  /\ ret = NoValue
  /\ wakeRet = NoValue
  /\ countRet = NoValue
  /\ crcRet = NoValue
  /\ flipped = FALSE
  /\ twin = NoValue

Init ==
  /\ Constructed
  /\ pc = "constructed"
  /\ transport \in {"full", "single", "absent"}

(***************************************************************************)
(* receiveResponseData(n): countGlobal = 0; cleanInputBuffer(); the chip   *)
(* has resp to deliver (nothing when it is absent).                        *)
(***************************************************************************)
\* the entry without the call of cleanInputBuffer()
ReceiveStartNoClean(n, resp) ==
  /\ countGlobal' = 0
  /\ inputBuffer' = inputBuffer
  /\ length' = n
  /\ want' = n
  /\ requests' = 0
  /\ wire' = IF transport = "absent" THEN <<>> ELSE resp
  /\ rx' = <<>>

ReceiveStart(n, resp) ==
  /\ countGlobal' = 0
  /\ inputBuffer' = cleanInputBuffer
  /\ length' = n
  /\ want' = n
  /\ requests' = 0
  /\ wire' = IF transport = "absent" THEN <<>> ELSE resp
  /\ rx' = <<>>

(***************************************************************************)
(* wakeUp(), up to its receiveResponseData(4): the wake pulse (an empty    *)
(* write to address 0), then the read of the acknowledgement starts.       *)
(***************************************************************************)
WakeStart(ack) ==
  /\ bus' = <<BusWrite(0, <<>>)>>
  /\ ReceiveStart(WakeResponseLen, ack)
  /\ pc' = "wake_recv"

\* what every top-level call resets: the record of the previous call
CallStart(o, dbg) ==
  /\ op' = o
  /\ debug' = dbg
  /\ serial' = <<>>
  /\ ret' = NoValue
  /\ wakeRet' = NoValue
  /\ countRet' = NoValue
  /\ crcRet' = NoValue

\* begin(i2caddr, wirePort): stores the address and runs wakeUp()
begin ==
  /\ pc = "constructed"
  /\ \E ack \in WakeAcks :
       /\ CallStart("begin", FALSE)
       /\ i2caddr' = I2cAddr
       /\ WakeStart(ack)
  /\ UNCHANGED <<crc, random32Bytes, packet_to_CRC, complete_message,
                 requestAmount, calls, transport, flipped, twin>>

CanCall == pc = "ready" /\ calls < MaxCalls

\* wakeUp() called by the user
wakeUp ==
  /\ CanCall
  /\ \E ack \in WakeAcks :
       /\ CallStart("wakeUp", FALSE)
       /\ WakeStart(ack)
  /\ calls' = calls + 1
  /\ UNCHANGED <<crc, random32Bytes, i2caddr, packet_to_CRC, complete_message,
                 requestAmount, transport, flipped, twin>>

\* idleMode() called by the user: one write of the idle word address
idleMode ==
  /\ CanCall
  /\ CallStart("idleMode", FALSE)
  /\ bus' = <<BusWrite(i2caddr, <<WORD_ADDRESS_VALUE_IDLE>>)>>
  /\ calls' = calls + 1
  /\ UNCHANGED <<inputBuffer, countGlobal, crc, random32Bytes, i2caddr,
                 packet_to_CRC, complete_message, length, requestAmount, pc,
                 transport, wire, rx, want, requests, flipped, twin>>

(***************************************************************************)
(* getInfo() and updateRandom32Bytes(debug), directly or through           *)
(* getRandomByte/Int/Long(debug), up to the read of the wake               *)
(* acknowledgement: the packet is built, its checksum computed into crc[], *)
(* complete_message assembled, then wakeUp() starts.                       *)
(***************************************************************************)
\* acks: the acknowledgements the chip may give to the wake pulse
CommandStartWith(o, dbg, acks) ==
  /\ CanCall
  /\ CallStart(o, dbg)
  /\ packet_to_CRC' = PacketToCrc(o)
  /\ crc' = atca_calculate_crc((CommandCount - 2) % 256, PacketToCrc(o))
  /\ complete_message' = CompleteMessage(o, crc')
  /\ \E ack \in acks : WakeStart(ack)
  /\ calls' = calls + 1
  /\ UNCHANGED <<random32Bytes, i2caddr, requestAmount, transport, flipped, twin>>

CommandStart(o, dbg) == CommandStartWith(o, dbg, WakeAcks)

getInfo == CommandStart("getInfo", FALSE)

updateRandom32Bytes == \E dbg \in BOOLEAN : CommandStart("updateRandom32Bytes", dbg)

getRandomByte == \E dbg \in BOOLEAN : CommandStart("getRandomByte", dbg)

getRandomInt == \E dbg \in BOOLEAN : CommandStart("getRandomInt", dbg)

getRandomLong == \E dbg \in BOOLEAN : CommandStart("getRandomLong", dbg)

(***************************************************************************)
(* One turn of the while(length) loop of receiveResponseData: a read       *)
(* request for at most 32 bytes, then every byte that is available is      *)
(* stored at inputBuffer[countGlobal], length--, countGlobal++.            *)
(***************************************************************************)
\* the request without the cap
RequestAmountUncapped(len) == len

\* if(length > 32) requestAmount = 32; else requestAmount = length;
RequestAmount(len) == IF len > MaxChunk THEN MaxChunk ELSE len

requestFrom ==
  /\ pc \in {"wake_recv", "cmd_recv", "recv"}
  /\ length # 0
  /\ requestAmount' = RequestAmount(length)
  /\ \E k \in Deliverable(requestAmount') :
       LET got == SubSeq(wire, 1, k)
       IN /\ inputBuffer' = Store(inputBuffer, countGlobal, got)
          /\ length' = (length - k) % 256
          /\ countGlobal' = (countGlobal + k) % 256
          /\ wire' = SubSeq(wire, k + 1, Len(wire))
          /\ rx' = rx \o got
  /\ requests' = Min(requests + 1, MaxRequests)
  /\ bus' = IF requests = 0 THEN Append(bus, BusRead(i2caddr)) ELSE bus
  /\ UNCHANGED <<crc, random32Bytes, i2caddr, packet_to_CRC, complete_message,
                 debug, pc, op, calls, transport, want, serial, ret, wakeRet,
                 countRet, crcRet, flipped, twin>>


(***************************************************************************)
(* wakeUp() after its receiveResponseData(4) returned: checkCount,         *)
(* checkCrc, then the status byte.  receiveResponseData runs with its      *)
(* default debug argument and the checks with theirs.                      *)
(***************************************************************************)
WakeFinish(v) ==
  /\ crc' = v.crc
  /\ countRet' = Returned(v.countRet)
  /\ crcRet' = IF v.crcRan THEN Returned(v.crcRet) ELSE NoValue
  /\ wakeRet' = Returned(wakeUpRet(inputBuffer, v))
  /\ serial' = serial \o v.lines

\* wakeUp() returns to the user (begin() returns what wakeUp() returned)
wakeUpReturn ==
  /\ pc = "wake_recv"
  /\ length = 0
  /\ op \in WakeOps
  /\ WakeFinish(CheckResponse(inputBuffer, countGlobal, crc, FALSE))
  /\ ret' = wakeRet'
  /\ pc' = "ready"
  /\ UNCHANGED <<inputBuffer, countGlobal, random32Bytes, i2caddr,
                 packet_to_CRC, complete_message, length, requestAmount,
                 debug, op, calls, transport, wire, rx, want, requests, bus,
                 flipped, twin>>

(***************************************************************************)
(* getInfo / updateRandom32Bytes after their wakeUp() returned: its value  *)
(* is dropped, the 8 bytes of complete_message are written to the device,  *)
(* and after the delay receiveResponseData(7 or 35) starts.                *)
(***************************************************************************)
\* _i2cPort->write(complete_message, 8): the bytes written, whatever crc[]
\* holds by now
\* the last two bytes taken from crc[] at the time of the write
WrittenFromCrc(msg, pair) == Prefix(msg, 6) \o <<At(pair, 0), At(pair, 1)>>

Written(msg, pair) == Prefix(msg, 8)

\* resps: what the chip may answer to the command
sendCommandWith(resps) ==
  /\ pc = "wake_recv"
  /\ length = 0
  /\ op \in CommandOps
  /\ WakeFinish(CheckResponse(inputBuffer, countGlobal, crc, FALSE))
  /\ bus' = Append(bus, BusWrite(i2caddr, Written(complete_message, crc')))
  /\ \E resp \in resps : ReceiveStart(ResponseLen(op), resp)
  /\ pc' = "cmd_recv"
  /\ UNCHANGED <<random32Bytes, i2caddr, packet_to_CRC, complete_message,
                 requestAmount, debug, op, calls, transport, ret, flipped, twin>>

sendCommand == sendCommandWith(Responses(op))

(***************************************************************************)
(* The rest of getInfo / updateRandom32Bytes once the response is in:      *)
(* idleMode(), checkCount, checkCrc, then the version byte (getInfo) or    *)
(* the copy into random32Bytes (updateRandom32Bytes), and the value the    *)
(* called operation returns.                                               *)
(***************************************************************************)
\* for (i = 0; i < 32; i++) random32Bytes[i] = inputBuffer[i + 1]
\* the copy taken from index 0, the count byte included
CopyRandomFromZero(buf) == [i \in 1..Random32Size |-> At(buf, i - 1)]

CopyRandom(buf) == [i \in 1..Random32Size |-> At(buf, (i - 1) + 1)]

\* if(checkCount(debug) == false) return false; ... then the copy loop
\* the copy made whatever the checks returned
StoreRandomAlways(v, buf, old) == CopyRandom(buf)

StoreRandom(v, buf, old) == IF Passed(v) THEN CopyRandom(buf) ELSE old

\* the sequence without the call of idleMode()
CommandFinishNoIdle(v) ==
  /\ crc' = v.crc
  /\ countRet' = Returned(v.countRet)
  /\ crcRet' = IF v.crcRan THEN Returned(v.crcRet) ELSE NoValue
  /\ bus' = bus
  /\ pc' = "ready"

CommandFinish(v) ==
  /\ crc' = v.crc
  /\ countRet' = Returned(v.countRet)
  /\ crcRet' = IF v.crcRan THEN Returned(v.crcRet) ELSE NoValue
  /\ bus' = Append(bus, BusWrite(i2caddr, <<WORD_ADDRESS_VALUE_IDLE>>))
  /\ pc' = "ready"

getInfoReturn ==
  /\ pc = "cmd_recv"
  /\ length = 0
  /\ op = "getInfo"
  /\ LET v == CheckResponse(inputBuffer, countGlobal, crc, CheckDebug(op, debug))
     IN /\ CommandFinish(v)
        /\ ret' = Returned(getInfoRet(inputBuffer, v))
        /\ serial' = serial \o receiveLines(RecvDebug(op, debug)) \o v.lines
  /\ UNCHANGED <<inputBuffer, countGlobal, random32Bytes, i2caddr,
                 packet_to_CRC, complete_message, length, requestAmount,
                 debug, op, calls, transport, wire, rx, want, requests,
                 wakeRet, flipped, twin>>

\* widths: the widths int may have on the target
updateRandom32BytesReturnWith(widths) ==
  /\ pc = "cmd_recv"
  /\ length = 0
  /\ op \in RandomOps
  /\ LET v == CheckResponse(inputBuffer, countGlobal, crc, CheckDebug(op, debug))
     IN /\ CommandFinish(v)
        /\ random32Bytes' = StoreRandom(v, inputBuffer, random32Bytes)
        /\ serial' = serial \o receiveLines(RecvDebug(op, debug)) \o v.lines
                       \o (IF Passed(v) /\ debug THEN <<"random32Bytes: ">> ELSE <<>>)
        /\ \/ op = "updateRandom32Bytes" /\ ret' = Returned(Passed(v))
           \/ op = "getRandomByte" /\ ret' = Returned(getRandomByteRet(random32Bytes'))
           \/ op = "getRandomInt"
                /\ \E w \in widths :
                     ret' = Returned(getRandomIntRet(random32Bytes', w))
           \/ op = "getRandomLong" /\ ret' = Returned(getRandomLongRet(random32Bytes'))
  /\ UNCHANGED <<inputBuffer, countGlobal, i2caddr, packet_to_CRC,
                 complete_message, length, requestAmount, debug, op, calls,
                 transport, wire, rx, want, requests, wakeRet, flipped, twin>>

updateRandom32BytesReturn == updateRandom32BytesReturnWith(IntWidths)

Next ==
  \/ begin
  \/ wakeUp
  \/ idleMode
  \/ getInfo
  \/ updateRandom32Bytes
  \/ getRandomByte
  \/ getRandomInt
  \/ getRandomLong
  \/ requestFrom
  \/ wakeUpReturn
  \/ sendCommand
  \/ getInfoReturn
  \/ updateRandom32BytesReturn

Spec == Init /\ [][Next]_vars

\* a call that has started keeps running: the program is one thread that
\* does nothing else; whether the user makes another call is up to the user
Running == requestFrom \/ wakeUpReturn \/ sendCommand \/ getInfoReturn
             \/ updateRandom32BytesReturn

FairSpec == Spec /\ WF_vars(Running)


(***************************************************************************)
(* receiveResponseData(n, debug) on its own, for every length the response *)
(* buffer holds, over a bus that delivers between 1 and the requested      *)
(* number of bytes per read request, from any earlier buffer contents.     *)
(***************************************************************************)
\* what the chip delivers when asked for n bytes
ChipBytes(n) == {Pattern(n, 35, 7), Pattern(n, 255, 0)}

\* earlier contents of the response buffer and of its counter
EarlierBuffers == {cleanInputBuffer, [i \in 1..InputBufferSize |-> 255]}
EarlierCounts == {0, RandomResponseLen}

InitRecv ==
  /\ Constructed
  /\ pc = "recv_ready"
  /\ transport = "short"

\* the earlier operation that left its bytes in the buffer
earlierResponse ==
  /\ pc = "recv_ready"
  /\ op = None
  /\ op' = "earlier"
  /\ inputBuffer' \in EarlierBuffers
  /\ countGlobal' \in EarlierCounts
  /\ i2caddr' = I2cAddr
  /\ UNCHANGED <<crc, random32Bytes, packet_to_CRC, complete_message, length,
                 requestAmount, debug, pc, calls, transport, wire, rx, want,
                 requests, bus, serial, ret, wakeRet, countRet, crcRet, flipped, twin>>

receiveResponseData ==
  /\ pc = "recv_ready"
  /\ op = "earlier"
  /\ \E n \in 1..InputBufferSize, dbg \in BOOLEAN :
       /\ CallStart("receiveResponseData", dbg)
       /\ \E resp \in ChipBytes(n) : ReceiveStart(n, resp)
  /\ bus' = <<>>
  /\ pc' = "recv"
  /\ calls' = calls + 1
  /\ UNCHANGED <<crc, random32Bytes, i2caddr, packet_to_CRC, complete_message,
                 requestAmount, transport, flipped, twin>>

\* the loop has ended: the debug print, return true
receiveResponseDataReturn ==
  /\ pc = "recv"
  /\ length = 0
  /\ serial' = serial \o receiveLines(debug)
  /\ ret' = Returned(TRUE)
  /\ pc' = "recv_done"
  /\ UNCHANGED <<inputBuffer, countGlobal, crc, random32Bytes, i2caddr,
                 packet_to_CRC, complete_message, length, requestAmount, debug,
                 op, calls, transport, wire, rx, want, requests, bus, wakeRet,
                 countRet, crcRet, flipped, twin>>

NextRecv ==
  \/ earlierResponse
  \/ receiveResponseData
  \/ requestFrom
  \/ receiveResponseDataReturn

SpecRecv == InitRecv /\ [][NextRecv]_vars

(***************************************************************************)
(* atca_calculate_crc and checkCrc on their own: a message is drawn, its   *)
(* checksum computed, the message and the checksum are put in the response *)
(* buffer as a received response, one bit of it may be inverted, and       *)
(* checkCrc runs on it.                                                    *)
(***************************************************************************)
ByteAlphabet == {0, 1, 128, 255}

\* the longest message whose response fits receiveResponseData(35)
MaxMsgLen == RandomResponseLen - 2

PatternSeeds == {<<0, 0>>, <<255, 0>>, <<35, 7>>, <<165, 51>>}

Messages ==
  UNION {[1..n -> ByteAlphabet] : n \in 0..MaxExhaustiveLen}
    \cup {Pattern(k, sd[1], sd[2]) : k \in 1..MaxMsgLen, sd \in PatternSeeds}
    \cup {<<WakeResponseLen, WakeStatus>>, PacketToCrc("getInfo"),
          PacketToCrc("updateRandom32Bytes"),
          <<InfoResponseLen, 0, 0, InfoVersion, 0>>}

\* the lengths of the responses the driver receives
ResponseLens == {WakeResponseLen, InfoResponseLen, RandomResponseLen}

InitCrc ==
  /\ inputBuffer \in EarlierBuffers
  /\ countGlobal = 0
  /\ crc \in {<<0, 0>>, <<255, 255>>}
  /\ random32Bytes = [i \in 1..Random32Size |-> 0]
  /\ i2caddr = I2cAddr
  /\ packet_to_CRC \in Messages
  /\ complete_message = <<>>
  /\ length = 0
  /\ requestAmount = 0
  /\ debug = FALSE
  /\ pc = "crc_drawn"
  /\ op = None
  /\ calls = 0
  /\ transport = "full"
  /\ wire = <<>>
  /\ rx = <<>>
  /\ want = 0
  /\ requests = 0
  /\ bus = <<>>
  /\ serial = <<>>
  /\ ret = NoValue
  /\ wakeRet = NoValue
  /\ countRet = NoValue
  /\ crcRet = NoValue
  /\ flipped = FALSE
  /\ twin = NoValue

\* atca_calculate_crc(length, data) called on the drawn message
calculateCrc ==
  /\ pc = "crc_drawn"
  /\ length' = Len(packet_to_CRC)
  /\ crc' = atca_calculate_crc(length', packet_to_CRC)
  /\ op' = "atca_calculate_crc"
  /\ pc' = "crc_calculated"
  /\ UNCHANGED <<inputBuffer, countGlobal, random32Bytes, i2caddr,
                 packet_to_CRC, complete_message, requestAmount, debug, calls,
                 transport, wire, rx, want, requests, bus, serial, ret,
                 wakeRet, countRet, crcRet, flipped, twin>>

\* the message followed by crc[0], crc[1] arrives as a response
loadResponse ==
  /\ pc = "crc_calculated"
  /\ rx' = packet_to_CRC \o <<At(crc, 0), At(crc, 1)>>
  /\ inputBuffer' = Store(cleanInputBuffer, 0, rx')
  /\ countGlobal' = Len(rx')
  /\ pc' = "crc_loaded"
  /\ UNCHANGED <<crc, random32Bytes, i2caddr, packet_to_CRC, complete_message,
                 length, requestAmount, debug, op, calls, transport, wire,
                 want, requests, bus, serial, ret, wakeRet, countRet, crcRet,
                 flipped, twin>>

\* one bit of one received byte is inverted, the checksum is not recomputed
flipBit ==
  /\ pc = "crc_loaded"
  /\ countGlobal \in ResponseLens
  /\ \E i \in 0..(countGlobal - 1), b \in 0..7 :
       inputBuffer' = [inputBuffer EXCEPT ![i + 1] = ToggleBit(@, b)]
  /\ flipped' = TRUE
  /\ pc' = "crc_flipped"
  /\ UNCHANGED <<countGlobal, crc, random32Bytes, i2caddr, packet_to_CRC,
                 complete_message, length, requestAmount, debug, op, calls,
                 transport, wire, rx, want, requests, bus, serial, ret,
                 wakeRet, countRet, crcRet, twin>>

\* checkCrc() called on the buffer
checkCrc ==
  /\ pc \in {"crc_loaded", "crc_flipped"}
  /\ crc' = checkCrcPair(inputBuffer, countGlobal)
  /\ crcRet' = Returned(checkCrcRet(inputBuffer, countGlobal, crc'))
  /\ serial' = serial \o checkCrcLines(debug, crcRet'[1])
  /\ op' = "checkCrc"
  /\ pc' = "crc_checked"
  /\ UNCHANGED <<inputBuffer, countGlobal, random32Bytes, i2caddr,
                 packet_to_CRC, complete_message, length, requestAmount, debug,
                 calls, transport, wire, rx, want, requests, bus, ret, wakeRet,
                 countRet, flipped, twin>>

NextCrc ==
  \/ calculateCrc
  \/ loadResponse
  \/ flipBit
  \/ checkCrc

SpecCrc == InitCrc /\ [][NextCrc]_vars


(***************************************************************************)
(* A call of updateRandom32Bytes / getRandomByte / getRandomInt /          *)
(* getRandomLong and its twin: the same call from the same state, with the *)
(* same answers of the chip and the other value of the debug flag.  twin   *)
(* holds the call, the answers, the memory the call starts from and, once  *)
(* the first of the two calls has returned, what it left behind.           *)
(***************************************************************************)
\* the fields of the object a call may read
StartMemories ==
  { [inputBuffer |-> cleanInputBuffer, countGlobal |-> 0, crc |-> <<0, 0>>,
     random32Bytes |-> [i \in 1..Random32Size |-> 0]],
    [inputBuffer |-> [i \in 1..InputBufferSize |-> 255],
     countGlobal |-> RandomResponseLen, crc |-> <<255, 255>>,
     random32Bytes |-> UnlockedData] }

Scenarios ==
  [op : RandomOps, debug : BOOLEAN, ack : WakeAcks, resp : RandomResponses,
   width : IntWidths, start : StartMemories, first : {NoValue}]

\* what a call leaves behind
Outcome ==
  [bus |-> bus, ret |-> ret, inputBuffer |-> inputBuffer,
   countGlobal |-> countGlobal, crc |-> crc, random32Bytes |-> random32Bytes,
   serial |-> serial]

InitDebug ==
  /\ \E sc \in Scenarios :
       /\ twin = <<sc>>
       /\ inputBuffer = sc.start.inputBuffer
       /\ countGlobal = sc.start.countGlobal
       /\ crc = sc.start.crc
       /\ random32Bytes = sc.start.random32Bytes
  /\ i2caddr = I2cAddr
  /\ packet_to_CRC = <<>>
  /\ complete_message = <<>>
  /\ length = 0
  /\ requestAmount = 0
  /\ debug = FALSE
  /\ pc = "ready"
  /\ op = None
  /\ calls = 0
  /\ transport \in {"full", "single"}
  /\ wire = <<>>
  /\ rx = <<>>
  /\ want = 0
  /\ requests = 0
  /\ bus = <<>>
  /\ serial = <<>>
  /\ ret = NoValue
  /\ wakeRet = NoValue
  /\ countRet = NoValue
  /\ crcRet = NoValue
  /\ flipped = FALSE

\* the call, and after the rewind its twin with the other debug flag
twinCall ==
  /\ calls \in {0, 1}
  /\ (calls = 0) = (twin[1].first = NoValue)
  /\ CommandStartWith(twin[1].op,
                      IF calls = 0 THEN twin[1].debug ELSE ~ twin[1].debug,
                      {twin[1].ack})

twinSendCommand == sendCommandWith({twin[1].resp})

twinReturn == updateRandom32BytesReturnWith({twin[1].width})

\* the first call has returned: what it left is kept, and the object is put
\* back into the state the call started from
rewind ==
  /\ pc = "ready"
  /\ calls = 1
  /\ twin[1].first = NoValue
  /\ twin' = <<[twin[1] EXCEPT !.first = <<Outcome>>]>>
  /\ inputBuffer' = twin[1].start.inputBuffer
  /\ countGlobal' = twin[1].start.countGlobal
  /\ crc' = twin[1].start.crc
  /\ random32Bytes' = twin[1].start.random32Bytes
  /\ UNCHANGED <<i2caddr, packet_to_CRC, complete_message, length,
                 requestAmount, debug, pc, op, calls, transport, wire, rx,
                 want, requests, bus, serial, ret, wakeRet, countRet, crcRet,
                 flipped>>

NextDebug ==
  \/ twinCall
  \/ requestFrom
  \/ twinSendCommand
  \/ twinReturn
  \/ rewind

SpecDebug == InitDebug /\ [][NextDebug]_vars


(***************************************************************************)
(* The return statements of getRandomByte / getRandomInt / getRandomLong   *)
(* on their own: random32Bytes holds what the fetch left, its first four   *)
(* bytes drawn from AccessorBytesDrawn.                                    *)
(***************************************************************************)
AccessorBytesDrawn == {0, 1, 127, 128, 200, 255}

InitAcc ==
  /\ inputBuffer = cleanInputBuffer
  /\ countGlobal = 0
  /\ crc = <<0, 0>>
  /\ \E b0 \in AccessorBytesDrawn, b1 \in AccessorBytesDrawn,
        b2 \in AccessorBytesDrawn, b3 \in AccessorBytesDrawn :
       random32Bytes = <<b0, b1, b2, b3>> \o Pattern(Random32Size - 4, 4, 1)
  /\ i2caddr = I2cAddr
  /\ packet_to_CRC = <<>>
  /\ complete_message = <<>>
  /\ length = 0
  /\ requestAmount = 0
  /\ debug = FALSE
  /\ pc = "fetched"
  /\ op = None
  /\ calls = 0
  /\ transport = "full"
  /\ wire = <<>>
  /\ rx = <<>>
  /\ want = 0
  /\ requests = 0
  /\ bus = <<>>
  /\ serial = <<>>
  /\ ret = NoValue
  /\ wakeRet = NoValue
  /\ countRet = NoValue
  /\ crcRet = NoValue
  /\ flipped = FALSE
  /\ twin = NoValue

\* what the accessor leaves alone
AccessorFrame ==
  UNCHANGED <<inputBuffer, countGlobal, crc, random32Bytes, i2caddr,
              packet_to_CRC, complete_message, length, requestAmount, debug,
              calls, transport, wire, rx, want, requests, bus, serial,
              wakeRet, countRet, crcRet, flipped, twin>>

\* return random32Bytes[0];
getRandomByteReturn ==
  /\ pc = "fetched"
  /\ op' = "getRandomByte"
  /\ ret' = Returned(getRandomByteRet(random32Bytes))
  /\ pc' = "accessor_returned"
  /\ AccessorFrame

\* return return_val; of getRandomInt, int being 16 or 32 bits wide
getRandomIntReturn ==
  /\ pc = "fetched"
  /\ op' = "getRandomInt"
  /\ \E w \in IntWidths : ret' = Returned(getRandomIntRet(random32Bytes, w))
  /\ pc' = "accessor_returned"
  /\ AccessorFrame

\* return return_val; of getRandomLong
getRandomLongReturn ==
  /\ pc = "fetched"
  /\ op' = "getRandomLong"
  /\ ret' = Returned(getRandomLongRet(random32Bytes))
  /\ pc' = "accessor_returned"
  /\ AccessorFrame

NextAcc ==
  \/ getRandomByteReturn
  \/ getRandomIntReturn
  \/ getRandomLongReturn

SpecAcc == InitAcc /\ [][NextAcc]_vars


(***************************************************************************)
(* Properties.  rx is what the bus delivered in the exchange, recorded     *)
(* apart from inputBuffer and countGlobal; RefCrc is the chip's checksum.  *)
(***************************************************************************)
\* wakeUp() or begin() has returned
WakeReturned == pc = "ready" /\ op \in WakeOps

\* the last two bytes of frame f are the checksum of the bytes before them
ChecksumValid(f) ==
  <<f[Len(f) - 1], f[Len(f)]>> = RefCrc(SubSeq(f, 1, Len(f) - 2))

\* C1: wakeUp() returns true exactly when the 4-byte acknowledgement it read
\* has its first byte equal to the number of bytes received, its last two
\* bytes equal to the CRC of its first two and its second byte 0x11, and
\* false in every other case; it makes one wake pulse and one read exchange.
C1_WakeUpResult ==
  WakeReturned =>
    /\ Len(rx) = WakeResponseLen
    /\ ret = Returned(rx[1] = Len(rx) /\ ChecksumValid(rx) /\ rx[2] = WakeStatus)
    /\ bus = <<BusWrite(0, <<>>), BusRead(i2caddr)>>

\* C1 witness: an acknowledgement with valid count and checksum whose second
\* byte is not 0x11 was rejected.
C1_Witness ==
  /\ WakeReturned
  /\ rx[1] = Len(rx) /\ ChecksumValid(rx) /\ rx[2] # WakeStatus
  /\ ret = Returned(FALSE)

C3_BeginReturnsFalse ==
  (op = "begin" /\ transport = "absent") ~> (pc = "ready" /\ ret = Returned(FALSE))

\* C4: atca_calculate_crc(n, d) leaves in crc[] the checksum of the reference
\* algorithm for d (register 0, bits least significant first, shift left
\* modulo 2^16, XOR 0x8005 when data bit and top bit differ; low byte, then
\* high byte), whatever crc[] and the response buffer held before.
C4_CrcIsReference ==
  pc = "crc_calculated" =>
    (length = Len(packet_to_CRC) /\ crc = RefCrc(packet_to_CRC))

\* C4 witness: the checksum of a message of full length was computed with
\* other contents in the response buffer.
C4_Witness ==
  /\ pc = "crc_calculated"
  /\ Len(packet_to_CRC) = MaxMsgLen
  /\ inputBuffer # cleanInputBuffer
  /\ crc # <<0, 0>>

\* C5: the checksum of the info command {0x07, 0x30, 0x00, 0x00, 0x00} is
\* crc[0] = 0x03, crc[1] = 0x5D, and the 8 bytes getInfo() writes to the
\* device are {0x03, 0x07, 0x30, 0x00, 0x00, 0x00, 0x03, 0x5D}.
C5_InfoCommandBytes ==
  op = "getInfo" =>
    /\ packet_to_CRC = <<7, 48, 0, 0, 0>>
    /\ pc = "wake_recv" => crc = <<3, 93>>
    /\ \A k \in 1..Len(bus) :
         (bus[k].kind = "write" /\ bus[k].addr # 0 /\ Len(bus[k].data) > 1)
           => bus[k].data = <<3, 7, 48, 0, 0, 0, 3, 93>>
    /\ pc \in {"cmd_recv", "ready"} => Len(bus) >= 3 /\ Len(bus[3].data) = 8

\* C5 witness: getInfo() has written its command.
C5_Witness ==
  op = "getInfo" /\ pc = "cmd_recv" /\ bus[3].data = <<3, 7, 48, 0, 0, 0, 3, 93>>

\* C6: when the response buffer holds a message of 1 to 33 bytes followed by
\* the two bytes atca_calculate_crc produced for it, and the byte counter is
\* the message length plus 2, checkCrc() returns true.
C6_RoundTrip ==
  (pc = "crc_checked" /\ ~ flipped /\ Len(packet_to_CRC) >= 1) => crcRet = Returned(TRUE)

\* C6 witness: checkCrc() accepted a 33-byte message with its checksum.
C6_Witness ==
  /\ pc = "crc_checked" /\ ~ flipped
  /\ Len(packet_to_CRC) = MaxMsgLen /\ countGlobal = RandomResponseLen
  /\ crcRet = Returned(TRUE)

\* C7: inverting any single bit of any byte of a response of 4, 7 or 35
\* bytes that passes checkCrc() makes checkCrc() return false.
C7_BitFlipRejected ==
  (pc = "crc_checked" /\ flipped) =>
    (countGlobal \in ResponseLens /\ crcRet = Returned(FALSE))

\* C7 witness: a 35-byte response with a bit inverted in its first checksum
\* byte was rejected.
C7_Witness ==
  /\ pc = "crc_checked" /\ flipped /\ countGlobal = RandomResponseLen
  /\ At(inputBuffer, countGlobal - 2) # rx[Len(rx) - 1]
  /\ crcRet = Returned(FALSE)

\* the operations of C8: they return whether the response was accepted
BooleanOps == WakeOps \cup {"getInfo", "updateRandom32Bytes"}

\* C8: checkCount() returns false when the first byte of the response differs
\* from the number of bytes received and true when they are equal; wakeUp(),
\* getInfo() and updateRandom32Bytes() return false for a response the count
\* check rejects.
C8_CountCheck ==
  (pc = "ready" /\ op \in WakeOps \cup CommandOps) =>
    /\ countRet = Returned(rx[1] = Len(rx))
    /\ (rx[1] # Len(rx) /\ op \in BooleanOps) => ret = Returned(FALSE)

\* C8 witness: getInfo() rejected a response whose checksum and version byte
\* are valid and whose first byte is not the number of bytes received.
C8_Witness ==
  /\ pc = "ready" /\ op = "getInfo"
  /\ rx[1] # Len(rx) /\ ChecksumValid(rx) /\ rx[4] = InfoVersion
  /\ countRet = Returned(FALSE) /\ ret = Returned(FALSE)

\* C9: receiveResponseData(n), 1 <= n <= 35, over a bus that delivers between
\* 1 and the requested number of bytes per request: every request asks for
\* min(32, bytes still missing) bytes, between 1 and 32; every request brings
\* the end nearer; the bytes received so far are in the buffer in order with
\* nothing after them; on return the buffer holds exactly the n bytes
\* delivered; for n > 32 at least two requests were made.
C9_State ==
  op = "receiveResponseData" =>
    /\ want \in 1..InputBufferSize
    /\ Len(rx) + Len(wire) = want
    /\ Prefix(inputBuffer, Len(rx)) = rx
    /\ \A i \in (Len(rx) + 1)..InputBufferSize : inputBuffer[i] = 0
    /\ pc = "recv_done" =>
         /\ Len(rx) = want /\ countGlobal = want /\ wire = <<>>
         /\ want > MaxChunk => requests >= 2

C9_Step ==
  requestFrom =>
    /\ requestAmount' = Min(32, Len(wire))
    /\ requestAmount' \in 1..32
    /\ Len(wire') < Len(wire)
    /\ Len(rx') - Len(rx) \in 1..requestAmount'

C9_Chunking == [] C9_State /\ [][C9_Step]_vars

\* C9 witness: a 35-byte response came in over more than one short read.
C9_Witness ==
  /\ op = "receiveResponseData" /\ pc = "recv_done"
  /\ want = RandomResponseLen /\ requestAmount < 3 /\ requests >= 2
  /\ Prefix(inputBuffer, want) = Pattern(want, 35, 7)

\* C10: getInfo() returns true exactly when the 7-byte response has count
\* byte 7, last two bytes equal to the CRC of its first five, and the byte
\* at index 3 equal to 0x50; otherwise false.
C10_GetInfoResult ==
  (pc = "ready" /\ op = "getInfo") =>
    /\ Len(rx) = InfoResponseLen
    /\ ret = Returned(rx[1] = 7 /\ ChecksumValid(rx) /\ rx[4] = 80)

\* C10 witness: getInfo() rejected a response with valid count and checksum
\* and another version byte, here that of an ATECC608.
C10_Witness ==
  /\ pc = "ready" /\ op = "getInfo"
  /\ rx[1] = 7 /\ ChecksumValid(rx) /\ rx[4] = 96
  /\ ret = Returned(FALSE)

\* an updateRandom32Bytes() called by the user has returned
FetchReturned == pc = "ready" /\ op = "updateRandom32Bytes"

\* the 32 data bytes of a 35-byte response: all but the count byte and the
\* two checksum bytes
DataBytes(f) == SubSeq(f, 2, Random32Size + 1)

\* C11: updateRandom32Bytes() returns true exactly when the 35-byte response
\* has count byte 35 and last two bytes equal to the CRC of its first 33
\* bytes; when it returns true, random32Bytes[i] is response byte i + 1 for
\* every i in 0..31.
C11_FetchResult ==
  FetchReturned =>
    /\ Len(rx) = RandomResponseLen
    /\ ret = Returned(rx[1] = 35 /\ ChecksumValid(rx))
    /\ ret = Returned(TRUE) =>
         \A i \in 0..31 : At(random32Bytes, i) = At(rx, i + 1)

\* C11 witness: updateRandom32Bytes() returned true and the buffer holds the
\* data of the response, which differ from the count byte.
C11_Witness ==
  /\ FetchReturned
  /\ ret = Returned(TRUE)
  /\ random32Bytes = DataBytes(rx)
  /\ At(random32Bytes, 0) # At(rx, 0)

\* the accessors: they return a value made from random32Bytes
AccessorOps == {"getRandomByte", "getRandomInt", "getRandomLong"}

\* the command writes of the current call: writes to the device of more than
\* the word address
CommandWrites ==
  {k \in 1..Len(bus) : bus[k].kind = "write" /\ bus[k].addr # 0 /\ Len(bus[k].data) > 1}

\* the value v is the big-endian value of the first n data bytes of the
\* response f, modulo 2^(8 n)
FormedFrom(v, f, n) ==
  CASE n = 1 -> v = f[2]
    [] n = 2 -> v % 65536 = f[2] * 256 + f[3]
    [] n = 4 -> /\ (v \div 65536) % 65536 = f[2] * 256 + f[3]
                /\ v % 65536 = f[4] * 256 + f[5]

AccessorBytes(o) ==
  CASE o = "getRandomByte" -> 1 [] o = "getRandomInt" -> 2 [] o = "getRandomLong" -> 4

\* C12 as claimed: a call of getRandomByte(), getRandomInt() or
\* getRandomLong() runs exactly one random-fetch exchange and returns a value
\* formed from the data bytes of the response received during that call.
C12_FreshValue ==
  (pc = "ready" /\ op \in AccessorOps) =>
    /\ Cardinality(CommandWrites) = 1
    /\ \A k \in CommandWrites : bus[k].data[3] = COMMAND_OPCODE_RANDOM
    /\ Len(rx) = RandomResponseLen
    /\ FormedFrom(ret[1], rx, AccessorBytes(op))

\* the part of C12 the code keeps: one random-fetch exchange per call, and a
\* value formed from this call's response when that response passes both checks
C12_FreshWhenAccepted ==
  (pc = "ready" /\ op \in AccessorOps) =>
    /\ Cardinality(CommandWrites) = 1
    /\ \A k \in CommandWrites : bus[k].data[3] = COMMAND_OPCODE_RANDOM
    /\ Len(rx) = RandomResponseLen
    /\ (countRet = Returned(TRUE) /\ crcRet = Returned(TRUE))
         => FormedFrom(ret[1], rx, AccessorBytes(op))

\* a getRandomByte() whose response failed a check returned the byte an
\* earlier call had stored
C12_StaleValue ==
  /\ pc = "ready" /\ op = "getRandomByte"
  /\ crcRet = Returned(FALSE)
  /\ ret = Returned(255) /\ rx[2] = 160

\* the operations that send a command and return whether it succeeded
CheckedOps == {"getInfo", "updateRandom32Bytes"}

\* C13 as claimed: in getInfo() and updateRandom32Bytes() a failed check of
\* the wake acknowledgement or of the command response makes the operation
\* return false, and after the failed check no command packet is sent and no
\* further bus transaction is made.
C13_AbortOnFailure ==
  op \in CheckedOps =>
    /\ wakeRet = Returned(FALSE) =>
         /\ CommandWrites = {}
         /\ bus = <<BusWrite(0, <<>>), BusRead(i2caddr)>>
         /\ pc = "ready"
         /\ ret = Returned(FALSE)
    /\ (pc = "ready" /\ (countRet = Returned(FALSE) \/ crcRet = Returned(FALSE))) =>
         /\ ret = Returned(FALSE)
         /\ bus[Len(bus)] = BusWrite(i2caddr, <<WORD_ADDRESS_VALUE_IDLE>>)

\* the part of C13 the code keeps: a failed check of the command response
\* makes the operation return false, with no bus transaction after the check
C13_AbortOnResponseFailure ==
  (op \in CheckedOps /\ pc = "ready"
     /\ (countRet = Returned(FALSE) \/ crcRet = Returned(FALSE))) =>
    /\ ret = Returned(FALSE)
    /\ bus[Len(bus)] = BusWrite(i2caddr, <<WORD_ADDRESS_VALUE_IDLE>>)

\* getInfo() returned true although its wakeUp() had returned false, having
\* sent the command after the failed acknowledgement
C13_WakeFailureIgnored ==
  /\ op = "getInfo" /\ pc = "ready"
  /\ wakeRet = Returned(FALSE)
  /\ CommandWrites # {}
  /\ ret = Returned(TRUE)

\* both calls of a twin pair have returned
TwinsReturned == twin # NoValue /\ pc = "ready" /\ calls = 2

\* C14: two runs of updateRandom32Bytes / getRandomByte / getRandomInt /
\* getRandomLong from the same state with the same chip responses that
\* differ only in the debug flag (handed on to receiveResponseData,
\* checkCount and checkCrc) make the same bus transactions, return the same
\* value, and leave the same response buffer, byte counter, checksum pair
\* and Random Output Buffer.
C14_DebugObservational ==
  TwinsReturned =>
    /\ debug # twin[1].debug
    /\ bus = twin[1].first[1].bus
    /\ ret = twin[1].first[1].ret
    /\ inputBuffer = twin[1].first[1].inputBuffer
    /\ countGlobal = twin[1].first[1].countGlobal
    /\ crc = twin[1].first[1].crc
    /\ random32Bytes = twin[1].first[1].random32Bytes

\* C14 witness: a fetch whose response fails the count check, run with and
\* without debug from a state with an earlier response in memory: the lines
\* printed differ, nothing else does.
C14_Witness ==
  /\ TwinsReturned
  /\ op = "updateRandom32Bytes"
  /\ countRet = Returned(FALSE)
  /\ twin[1].start.countGlobal = RandomResponseLen
  /\ serial # twin[1].first[1].serial
  /\ ret = twin[1].first[1].ret

\* the bus transactions of a complete call of getInfo / updateRandom32Bytes
CommandBus ==
  << BusWrite(0, <<>>),
     BusRead(i2caddr),
     BusWrite(i2caddr, Prefix(complete_message, 8)),
     BusRead(i2caddr),
     BusWrite(i2caddr, <<WORD_ADDRESS_VALUE_IDLE>>) >>

\* C15: in every call of getInfo() or updateRandom32Bytes() that returns,
\* the bus sees, in this order and once each: the wake pulse, the read of the
\* 4-byte acknowledgement, one 8-byte command write to the device, the read
\* of the response, one idle write of a single byte; the idle write is there
\* whether the response is accepted or rejected, and nothing follows it.
C15_BusOrder ==
  (pc = "ready" /\ op \in CommandOps) =>
    /\ bus = CommandBus
    /\ Len(bus[3].data) = 8
    /\ Len(bus[5].data) = 1
    /\ Len(rx) = ResponseLen(op)

\* C15 witness: an updateRandom32Bytes() that rejected its response, read
\* over several requests, has the idle write as its last transaction.
C15_Witness ==
  /\ pc = "ready" /\ op = "updateRandom32Bytes"
  /\ ret = Returned(FALSE)
  /\ requests >= 2
  /\ Len(bus) = 5
  /\ bus[5] = BusWrite(i2caddr, <<WORD_ADDRESS_VALUE_IDLE>>)

\* a response is being received or has been received by the running operation
Receiving == pc \in {"wake_recv", "cmd_recv", "ready"} /\ op \in WakeOps \cup CommandOps

\* C16: receiveResponseData(n) clears the response buffer and resets the byte
\* counter when it starts: whatever an earlier operation left, the buffer
\* holds the bytes delivered in this call from position 0 on and 0 in every
\* position after them, and the counter is their number; so the count check
\* and the checksum check of an operation are decided by the bytes of its own
\* response alone.
C16_NoLeftovers ==
  Receiving =>
    /\ countGlobal = Len(rx)
    /\ Prefix(inputBuffer, Len(rx)) = rx
    /\ \A i \in Len(rx)..(InputBufferSize - 1) : At(inputBuffer, i) = 0
    /\ pc = "ready" =>
         /\ Len(rx) = want
         /\ countRet = Returned(rx[1] = Len(rx))
         /\ crcRet # NoValue => crcRet = Returned(ChecksumValid(rx))

\* C16 witness: a wakeUp() after a successful updateRandom32Bytes(), whose
\* 35-byte response filled the buffer: the 4 bytes of the acknowledgement are
\* followed by zeros and the acknowledgement is accepted.
C16_Witness ==
  /\ pc = "ready" /\ op = "wakeUp"
  /\ random32Bytes = Pattern(Random32Size, 160, 1)
  /\ Prefix(inputBuffer, WakeResponseLen) = WakeAckValid
  /\ \A i \in WakeResponseLen..(InputBufferSize - 1) : At(inputBuffer, i) = 0
  /\ ret = Returned(TRUE)

\* C17: with b0..b3 the first four bytes of random32Bytes after the fetch,
\* getRandomByte() returns b0, between 0 and 255; getRandomInt() returns
\* b0 * 256 + b1 modulo 2^16; getRandomLong() returns
\* b0 * 2^24 + b1 * 2^16 + b2 * 2^8 + b3 modulo 2^32, its upper 16 bits being
\* b0 * 256 + b1 and its lower 16 bits b2 * 256 + b3; also when b0 >= 0x80.
C17_BigEndian ==
  pc = "accessor_returned" =>
    LET b0 == At(random32Bytes, 0)
        b1 == At(random32Bytes, 1)
        b2 == At(random32Bytes, 2)
        b3 == At(random32Bytes, 3)
        v  == ret[1]
    IN /\ op = "getRandomByte" => (v = b0 /\ v \in Byte)
       /\ op = "getRandomInt" =>
            (v % 65536 = b0 * 256 + b1 /\ v \in -32768..65535)
       /\ op = "getRandomLong" =>
            /\ (v \div 65536) % 65536 = b0 * 256 + b1
            /\ v % 65536 = b2 * 256 + b3
            /\ (v \div 65536) \in -32768..32767

\* C17 witness: getRandomLong() with b0 = 0x80 and four different bytes
\* returned a negative value.
C17_Witness ==
  /\ pc = "accessor_returned" /\ op = "getRandomLong"
  /\ Prefix(random32Bytes, 4) = <<128, 1, 200, 255>>
  /\ ret[1] < 0

\* C18: random32Bytes changes only in the step in which an
\* updateRandom32Bytes() (called by the user or by an accessor) has passed
\* both checks on its response, and then to the data bytes of that response;
\* an updateRandom32Bytes() that returns false leaves all 32 bytes as they
\* were, and so does every step of wakeUp, getInfo, idleMode,
\* receiveResponseData, checkCount and checkCrc.
C18_Step ==
  /\ random32Bytes' # random32Bytes =>
       /\ pc = "cmd_recv" /\ pc' = "ready" /\ op \in RandomOps
       /\ countRet' = Returned(TRUE) /\ crcRet' = Returned(TRUE)
       /\ random32Bytes' = DataBytes(rx)
  /\ (pc = "cmd_recv" /\ pc' = "ready" /\ op = "updateRandom32Bytes"
        /\ ret' = Returned(FALSE)) => random32Bytes' = random32Bytes
  /\ op' \notin RandomOps => random32Bytes' = random32Bytes

C18_FrameEffect == [][C18_Step]_vars

\* C18 witness: an updateRandom32Bytes() that returned false on a response
\* with other data left in place the number an earlier call had fetched.
C18_Witness ==
  /\ FetchReturned
  /\ ret = Returned(FALSE)
  /\ random32Bytes = UnlockedData
  /\ DataBytes(rx) # UnlockedData

\* the count byte the operation's receiveResponseData call asks for
ExpectedCount(o) == IF o \in WakeOps THEN WakeResponseLen ELSE ResponseLen(o)

\* C19: over a bus that never delivers more than was requested, during
\* receiveResponseData(n) the byte counter plus the remaining length is n and
\* every byte is written at an index below n, inside the buffer; on return
\* the counter is n.  So checkCrc() runs with a counter of 4, 7 or 35, its
\* length counter - 2 and its indices counter - 1, counter - 2 are not
\* negative, and wakeUp / getInfo / updateRandom32Bytes accept only a
\* response whose count byte is 4 / 7 / 35.
C19_State ==
  Receiving =>
    /\ want \in ResponseLens
    /\ countGlobal + length = want
    /\ countGlobal <= InputBufferSize
    /\ (pc = "ready" \/ (pc \in {"wake_recv", "cmd_recv"} /\ length = 0)) =>
         countGlobal = want
    /\ (pc = "ready" /\ crcRet # NoValue) =>
         /\ countGlobal \in ResponseLens
         /\ countGlobal - 2 >= 0
         /\ countGlobal - 1 < InputBufferSize
    /\ (pc = "ready" /\ op \in BooleanOps /\ ret = Returned(TRUE)) =>
         /\ rx[1] = ExpectedCount(op)
         /\ want = ExpectedCount(op)

C19_Step ==
  requestFrom =>
    \A i \in 0..(InputBufferSize - 1) :
      At(inputBuffer', i) # At(inputBuffer, i) => (i >= countGlobal /\ i < want)

C19_CounterInRange == [] C19_State /\ [][C19_Step]_vars

\* C19 witness: getInfo() accepted a response read byte by byte; checkCrc()
\* ran with a counter of 7.
C19_Witness ==
  /\ pc = "ready" /\ op = "getInfo"
  /\ transport = "single"
  /\ crcRet = Returned(TRUE) /\ ret = Returned(TRUE)
  /\ countGlobal = InfoResponseLen /\ rx[1] = InfoResponseLen

\* C20: the last two of the 8 bytes getInfo() and updateRandom32Bytes() write
\* to the device are the CRC of the packet's five bytes count, opcode,
\* param1, param2a, param2b, for every wake acknowledgement, although the
\* wakeUp() that runs between the computation of the checksum and the write
\* leaves the checksum of the acknowledgement in crc[].
C20_CommandCrc ==
  (op \in CommandOps /\ pc \in {"cmd_recv", "ready"}) =>
    /\ Cardinality(CommandWrites) = 1
    /\ \A k \in CommandWrites :
         /\ Len(bus[k].data) = 8
         /\ SubSeq(bus[k].data, 2, 6) = PacketToCrc(op)
         /\ SubSeq(bus[k].data, 7, 8) = RefCrc(SubSeq(bus[k].data, 2, 6))

\* C20 witness: updateRandom32Bytes() has written its command with the
\* checksum of the packet while crc[] held another pair, that of the wake
\* acknowledgement.
C20_Witness ==
  /\ op = "updateRandom32Bytes" /\ pc = "cmd_recv"
  /\ wakeRet = Returned(TRUE)
  /\ crc = RefCrc(<<WakeResponseLen, WakeStatus>>)
  /\ crc # RefCrc(PacketToCrc(op))
  /\ SubSeq(bus[3].data, 7, 8) = RefCrc(PacketToCrc(op))

=============================================================================
